---- MODULE Spec2Model ----
(***************************************************************************)
(* Model of scripts/play_file_server.py: the ShellCmd process wrapper, the *)
(* VolumeListener subscription gate and the AudioFilePlayer node           *)
(* (action callback as_cb, topic callback topic_cb, preempt callback       *)
(* as_preempt_cb, volume get/set).                                         *)
(*                                                                         *)
(* Python's None is the string "None"; return codes are strings so that    *)
(* they can be compared with it.  A ShellCmd handle and the OS process it  *)
(* spawned share one index 1..MaxProcs; index 0 is the None reference.     *)
(***************************************************************************)
EXTENDS Integers, Sequences, FiniteSets, TLC

\* ---------------------------------------------------------------- bounds
MaxProcs == 2      \* ShellCmd objects play_audio_file may construct
StartTime == 2     \* time.time() when the node starts
MaxTicks == 2      \* clock ticks after the start
MaxPeers == 2      \* subscribers of ~get_volume at one time
MaxCalls == 3      \* calls of enable_volume_service, and of disable_volume_servce
MaxTextLen == 4    \* characters of a mixer output text
MaxPathLen == 3    \* characters of a requested file path
MaxPubs == 2       \* messages published on ~get_volume

VARIABLES
  procs,                    \* ShellCmd handle + OS process, per index
  nprocs,                   \* number of ShellCmd objects constructed so far
  current_playing_process,  \* AudioFilePlayer.current_playing_process (0 = None)
  pc,                       \* position of each control flow
  new,                      \* play_audio_file: the ShellCmd just constructed
  tgt,                      \* the handle a running kill() was called on
  goals,                    \* action goals accepted so far
  results,                  \* terminal results set for the current goal, in order
  preempt_requested,        \* afp_as.is_preempt_requested()
  now,                      \* time.time()
  initial_time, final_time, \* locals of as_cb
  total_time,               \* res.total_time of the Success result
  fb_elapsed,               \* elapsed_played_time of the published feedback
  shutdown,                 \* rospy.is_shutdown()
  play_timers,              \* rospy.Timer objects created by play_audio_file
  kill_raised,              \* control flows whose os.killpg raised (no such process)
  had_running,              \* a playback process was running when the start began
  cancel_in_time,           \* as_preempt_cb returned before the goal's process
                            \* had exited by itself
  num_peers,                \* VolumeListener.num_peers
  conns,                    \* subscribers connected to ~get_volume (rospy's count)
  volume_timer,             \* AudioFilePlayer.volume_timer ("None" or "Timer")
  lpc,                      \* position inside peer_subscribe / peer_unsubscribe
  timers_created,           \* rospy.Timer objects created by enable_volume_service
  timers_shutdown,          \* volume timers shut down by disable_volume_servce
  enable_calls,             \* calls of enable_volume_service so far
  disable_calls,            \* calls of disable_volume_servce so far
  vt_alive,                 \* the thread of the Timer in volume_timer is running
  curr_vol,                 \* AudioFilePlayer.curr_vol
  published,                \* the value last published on ~get_volume
  pubs,                     \* number of messages published on ~get_volume
  vol_raised,               \* the last curr_vol_cb ended by a ValueError raised in
                            \* get_current_volume
  pt_dead,                  \* play_audio_file's timers whose thread has ended
  gpc,                      \* position of the running curr_vol_cb
  gcmd,                     \* the process of the volume_get_command it spawned
  gtm,                      \* the timer that called it: the number of the
                            \* listener's timer, -1 for one of play_audio_file's,
                            \* 0 when no curr_vol_cb is running
  vol_req,                  \* data.data of the last ~set_volume message
  to_pct,                   \* volume_cb: the clamped value
  cmd_line,                 \* volume_cb: the text appended to volume_set_command
  vpc,                      \* position of the running volume_cb
  scmd,                     \* the process of the volume_set_command it spawned
  audio_file_path,          \* play_audio_file: the path as requested
  full_command              \* play_audio_file: the shell command built from it

playVars == <<procs, nprocs, current_playing_process, pc, new, tgt, goals,
              results, preempt_requested, now, initial_time,
              final_time, total_time, fb_elapsed, shutdown, play_timers,
              kill_raised, had_running, cancel_in_time>>

gateVars == <<num_peers, conns, volume_timer, lpc, timers_created,
              timers_shutdown, enable_calls, disable_calls, vt_alive>>

volVars == <<curr_vol, published, pubs, vol_raised, pt_dead, gpc, gcmd, gtm>>

setVars == <<vol_req, to_pct, cmd_line, vpc, scmd>>

cmdVars == <<audio_file_path, full_command>>

notPlay == <<gateVars, volVars, setVars, cmdVars>>

vars == <<playVars, gateVars, volVars, setVars, cmdVars>>

Threads == {"as", "tp", "pr"}
Starters == {"as", "tp"}
Pids == 1..MaxProcs

\* ------------------------------------------------------------- ShellCmd

\* ShellCmd.__init__: retcode None, a fresh process in its own group.
ShellCmdInit == [st |-> "running", code |-> "None", retcode |-> "None"]

Unborn == [st |-> "unborn", code |-> "None", retcode |-> "None"]

\* subprocess.Popen.poll(): the exit status once the child has exited, else None.
Poll(ps, p) == IF ps[p].st \in {"zombie", "reaped"} THEN ps[p].code ELSE "None"

\* ShellCmd.get_retcode: the cached retcode, or poll() when it is still None.
get_retcode(ps, p) == IF ps[p].retcode = "None" THEN Poll(ps, p) ELSE ps[p].retcode

\* The state get_retcode leaves behind: the retcode cached, an exited child reaped.
AfterGetRetcode(ps, p) ==
  [ps EXCEPT ![p].retcode = get_retcode(ps, p),
             ![p].st = IF ps[p].retcode = "None" /\ ps[p].st = "zombie"
                       THEN "reaped" ELSE @]

is_done(ps, p) == get_retcode(ps, p) # "None"

is_succeeded(ps, p) == get_retcode(ps, p) = "0"

\* os.killpg raises when the process group no longer exists (child reaped).
KillpgRaises(ps, p) == ps[p].st = "reaped"

\* ShellCmd.kill, first half: retcode = -1, then SIGTERM to the group.  The
\* signal is delivered; the child is still alive until it has died of it.
KillSignal(ps, p) ==
  [ps EXCEPT ![p].retcode = "-1",
             ![p].st = IF @ = "running" THEN "termed" ELSE @]

\* The child has exited (reaped or not): what process.wait() waits for.
Exited(ps, p) == ps[p].st \in {"zombie", "reaped"}

\* ShellCmd.kill, second half: process.wait() returns once the child has
\* exited, and reaps it.
KillWait(ps, p) == [ps EXCEPT ![p].st = IF @ = "zombie" THEN "reaped" ELSE @]

\* The player processes that are alive.
Running == {p \in Pids : procs[p].st \in {"running", "termed"}}

\* ---------------------------------------------------------------- Init

InitPlay ==
  /\ procs = [p \in Pids |-> Unborn]
  /\ nprocs = 0
  /\ current_playing_process = 0
  /\ pc = [t \in Threads |-> "idle"]
  /\ new = [t \in Starters |-> 0]
  /\ tgt = [t \in Threads |-> 0]
  /\ goals = 0
  /\ results = <<>>
  /\ preempt_requested = FALSE
  /\ now = StartTime
  /\ initial_time = 0
  /\ final_time = 0
  /\ total_time = 0
  /\ fb_elapsed = 0
  /\ shutdown = FALSE
  /\ play_timers = 0
  /\ kill_raised = {}
  /\ had_running = [t \in Starters |-> FALSE]
  /\ cancel_in_time = FALSE

\* ------------------------------------------------- play_audio_file steps

\* play_audio_file, ShellCmd(full_command): the new process is spawned.
PlaySpawn(t) ==
  /\ pc[t] = "spawn"
  /\ nprocs < MaxProcs
  /\ nprocs' = nprocs + 1
  /\ procs' = [procs EXCEPT ![nprocs + 1] = ShellCmdInit]
  /\ new' = [new EXCEPT ![t] = nprocs + 1]
  /\ pc' = [pc EXCEPT ![t] = "assign"]
  /\ UNCHANGED notPlay
  /\ UNCHANGED <<current_playing_process, tgt, goals, results,
                 preempt_requested, now, initial_time, final_time, total_time,
                 fb_elapsed, shutdown, play_timers, kill_raised, had_running,
                 cancel_in_time>>

\* play_audio_file, last statements: a new Publisher and a new 1 s rospy.Timer on
\* curr_vol_cb; play_audio_file returns (as_cb goes on to its loop, topic_cb ends).
PlayReturn(t) ==
  /\ play_timers' = play_timers + 1
  /\ pc' = [pc EXCEPT ![t] = IF t = "as" THEN "loop" ELSE "idle"]
  /\ tgt' = [tgt EXCEPT ![t] = 0]
  /\ new' = [new EXCEPT ![t] = IF t = "as" THEN @ ELSE 0]
  /\ had_running' = [had_running EXCEPT ![t] = FALSE]

\* self.current_playing_process = <new>: the replaced handle loses its last
\* reference and ShellCmd.__del__ runs: if not self.is_done(): self.kill().
PlayAssign(t) ==
  /\ pc[t] = "assign"
  /\ current_playing_process' = new[t]
  /\ LET old == current_playing_process IN
     IF old # 0 /\ ~is_done(procs, old)
     THEN /\ procs' = AfterGetRetcode(procs, old)
          /\ pc' = [pc EXCEPT ![t] = "del_kill"]
          /\ tgt' = [tgt EXCEPT ![t] = old]
          /\ UNCHANGED <<new, play_timers, had_running>>
     ELSE /\ procs' = IF old # 0 THEN AfterGetRetcode(procs, old) ELSE procs
          /\ PlayReturn(t)
  /\ UNCHANGED notPlay
  /\ UNCHANGED <<nprocs, goals, results, preempt_requested, now,
                 initial_time, final_time, total_time, fb_elapsed, shutdown,
                 kill_raised, cancel_in_time>>

\* __del__ -> kill(): retcode = -1 and killpg; an exception in __del__ is ignored.
DelKill(t) ==
  /\ pc[t] = "del_kill"
  /\ procs' = KillSignal(procs, tgt[t])
  /\ IF KillpgRaises(procs, tgt[t])
     THEN /\ kill_raised' = kill_raised \cup {t}
          /\ PlayReturn(t)
     ELSE /\ pc' = [pc EXCEPT ![t] = "del_wait"]
          /\ UNCHANGED <<kill_raised, tgt, new, play_timers, had_running>>
  /\ UNCHANGED notPlay
  /\ UNCHANGED <<nprocs, current_playing_process, goals,
                 results, preempt_requested, now, initial_time, final_time,
                 total_time, fb_elapsed, shutdown, cancel_in_time>>

\* __del__ -> kill(): process.wait() blocks until the child has exited; then the
\* rest of play_audio_file.
DelWait(t) ==
  /\ pc[t] = "del_wait"
  /\ Exited(procs, tgt[t])
  /\ procs' = KillWait(procs, tgt[t])
  /\ PlayReturn(t)
  /\ UNCHANGED notPlay
  /\ UNCHANGED <<nprocs, current_playing_process, goals,
                 results, preempt_requested, now, initial_time, final_time,
                 total_time, fb_elapsed, shutdown, kill_raised, cancel_in_time>>

\* ------------------------------------------------------------------ as_cb

\* A goal is accepted and as_cb starts: initial_time = time.time().
AsAccept ==
  /\ pc["as"] = "idle"
  /\ pc["pr"] = "idle"
  /\ ~shutdown
  /\ nprocs < MaxProcs
  /\ goals' = goals + 1
  /\ results' = <<>>
  /\ preempt_requested' = FALSE
  /\ cancel_in_time' = FALSE
  /\ initial_time' = now
  /\ had_running' = [had_running EXCEPT !["as"] = Running # {}]
  /\ pc' = [pc EXCEPT !["as"] = "spawn"]
  /\ UNCHANGED notPlay
  /\ fb_elapsed' = 0
  /\ UNCHANGED <<procs, nprocs, current_playing_process, new, tgt, now,
                 final_time, total_time, shutdown, play_timers,
                 kill_raised>>

\* One evaluation of the while condition of line 132:
\* not rospy.is_shutdown() and not self.current_playing_process.is_done().
AsLoop ==
  /\ pc["as"] = "loop"
  /\ LET p == current_playing_process IN
     IF shutdown
     THEN /\ pc' = [pc EXCEPT !["as"] = "final"]
          /\ UNCHANGED procs
     ELSE /\ procs' = AfterGetRetcode(procs, p)
          /\ pc' = [pc EXCEPT !["as"] = IF is_done(procs, p) THEN "final" ELSE "body"]
  /\ UNCHANGED notPlay
  /\ UNCHANGED <<nprocs, current_playing_process, new, tgt, goals,
                 results, preempt_requested, now, initial_time, final_time,
                 total_time, fb_elapsed, shutdown, play_timers, kill_raised,
                 had_running, cancel_in_time>>

\* The loop body, lines 133-138: publish_feedback(curr_time - initial_time) and
\* r.sleep().  r.sleep() raises ROSInterruptException once the node is shut
\* down, and the exception ends as_cb.
AsFeedback ==
  /\ pc["as"] = "body"
  /\ fb_elapsed' = now - initial_time
  /\ pc' = [pc EXCEPT !["as"] = IF shutdown THEN "idle" ELSE "loop"]
  /\ UNCHANGED notPlay
  /\ UNCHANGED <<procs, nprocs, current_playing_process, new, tgt, goals,
                 results, preempt_requested, now, initial_time, final_time,
                 total_time, shutdown, play_timers, kill_raised,
                 had_running, cancel_in_time>>

\* res.total_time of the Success result: rospy.Duration(final_time).
SuccessTotalTime(final, initial) == final

\* After the loop: final_time, then succeeded / return on preempt / aborted.
AsFinal ==
  /\ pc["as"] = "final"
  /\ final_time' = now
  /\ LET p == current_playing_process IN
     /\ procs' = AfterGetRetcode(procs, p)
     /\ IF is_succeeded(procs, p)
        THEN /\ total_time' = SuccessTotalTime(now, initial_time)
             /\ results' = Append(results, "succeeded")
        ELSE /\ UNCHANGED total_time
             /\ IF preempt_requested
                THEN UNCHANGED results
                ELSE results' = Append(results, "aborted")
  /\ pc' = [pc EXCEPT !["as"] = "idle"]
  /\ UNCHANGED notPlay
  /\ UNCHANGED <<nprocs, current_playing_process, new, tgt, goals,
                 preempt_requested, now, initial_time, fb_elapsed, shutdown,
                 play_timers, kill_raised, had_running, cancel_in_time>>

\* --------------------------------------------------------------- topic_cb

\* A message arrives on ~play: if self.current_playing_process: ...
TopicArrive ==
  /\ pc["tp"] = "idle"
  /\ ~shutdown
  /\ nprocs < MaxProcs
  /\ had_running' = [had_running EXCEPT !["tp"] = Running # {}]
  /\ pc' = [pc EXCEPT !["tp"] = IF current_playing_process # 0
                                THEN "t_done" ELSE "spawn"]
  /\ UNCHANGED notPlay
  /\ UNCHANGED <<procs, nprocs, current_playing_process, new, tgt, goals,
                 results, preempt_requested, now, initial_time,
                 final_time, total_time, fb_elapsed, shutdown, play_timers,
                 kill_raised, cancel_in_time>>

\* if not self.current_playing_process.is_done(): ...
TopicIsDone ==
  /\ pc["tp"] = "t_done"
  /\ LET p == current_playing_process IN
     /\ procs' = AfterGetRetcode(procs, p)
     /\ pc' = [pc EXCEPT !["tp"] = IF is_done(procs, p) THEN "spawn" ELSE "t_kill"]
  /\ UNCHANGED notPlay
  /\ UNCHANGED <<nprocs, current_playing_process, new, tgt, goals,
                 results, preempt_requested, now, initial_time, final_time,
                 total_time, fb_elapsed, shutdown, play_timers, kill_raised,
                 had_running, cancel_in_time>>

\* self.current_playing_process.kill(): retcode = -1 and killpg.  When killpg
\* raises, the exception leaves topic_cb and play_audio_file is not called.
TopicKill ==
  /\ pc["tp"] = "t_kill"
  /\ LET p == current_playing_process IN
     /\ procs' = KillSignal(procs, p)
     /\ IF KillpgRaises(procs, p)
        THEN /\ pc' = [pc EXCEPT !["tp"] = "idle"]
             /\ kill_raised' = kill_raised \cup {"tp"}
             /\ had_running' = [had_running EXCEPT !["tp"] = FALSE]
             /\ UNCHANGED tgt
        ELSE /\ pc' = [pc EXCEPT !["tp"] = "t_wait"]
             /\ tgt' = [tgt EXCEPT !["tp"] = p]
             /\ UNCHANGED <<kill_raised, had_running>>
  /\ UNCHANGED notPlay
  /\ UNCHANGED <<nprocs, current_playing_process, new, goals, results,
                 preempt_requested, now, initial_time, final_time, total_time,
                 fb_elapsed, shutdown, play_timers, cancel_in_time>>

\* kill(): process.wait() blocks until the child has exited; then topic_cb
\* calls play_audio_file.
TopicWait ==
  /\ pc["tp"] = "t_wait"
  /\ Exited(procs, tgt["tp"])
  /\ procs' = KillWait(procs, tgt["tp"])
  /\ pc' = [pc EXCEPT !["tp"] = "spawn"]
  /\ tgt' = [tgt EXCEPT !["tp"] = 0]
  /\ UNCHANGED notPlay
  /\ UNCHANGED <<nprocs, current_playing_process, new, goals,
                 results, preempt_requested, now, initial_time, final_time,
                 total_time, fb_elapsed, shutdown, play_timers, kill_raised,
                 had_running, cancel_in_time>>

\* ---------------------------------------------------------- as_preempt_cb

\* The process spawned for the current goal has exited by itself.
GoalProcessExited == pc["as"] # "spawn" /\ procs[new["as"]].code \in {"0", "1"}

\* A cancel reaches the active goal: the action server sets its preempt flag and
\* calls as_preempt_cb: if self.current_playing_process: ...
PreemptArrive ==
  /\ pc["pr"] = "idle"
  /\ pc["as"] # "idle"
  /\ ~shutdown
  /\ ~preempt_requested
  /\ preempt_requested' = TRUE
  /\ IF current_playing_process # 0
     THEN /\ pc' = [pc EXCEPT !["pr"] = "p_kill"]
          /\ UNCHANGED cancel_in_time
     ELSE /\ pc' = [pc EXCEPT !["pr"] = "idle"]
          /\ cancel_in_time' = ~GoalProcessExited
  /\ UNCHANGED notPlay
  /\ UNCHANGED <<procs, nprocs, current_playing_process, new, tgt, goals, results,
                 now, initial_time, final_time, total_time, fb_elapsed, shutdown,
                 play_timers, kill_raised, had_running>>

\* self.current_playing_process.kill(), not guarded by is_done(): retcode = -1
\* and killpg.  When killpg raises, set_preempted is never reached.
PreemptKill ==
  /\ pc["pr"] = "p_kill"
  /\ LET p == current_playing_process IN
     /\ procs' = KillSignal(procs, p)
     /\ IF KillpgRaises(procs, p)
        THEN /\ pc' = [pc EXCEPT !["pr"] = "idle"]
             /\ kill_raised' = kill_raised \cup {"pr"}
             /\ cancel_in_time' = ~GoalProcessExited
             /\ UNCHANGED tgt
        ELSE /\ pc' = [pc EXCEPT !["pr"] = "p_wait"]
             /\ tgt' = [tgt EXCEPT !["pr"] = p]
             /\ UNCHANGED <<kill_raised, cancel_in_time>>
  /\ UNCHANGED notPlay
  /\ UNCHANGED <<nprocs, current_playing_process, new, goals, results,
                 preempt_requested, now, initial_time, final_time, total_time,
                 fb_elapsed, shutdown, play_timers, had_running>>

\* kill(): process.wait() blocks until the child has exited.
PreemptWait ==
  /\ pc["pr"] = "p_wait"
  /\ Exited(procs, tgt["pr"])
  /\ procs' = KillWait(procs, tgt["pr"])
  /\ pc' = [pc EXCEPT !["pr"] = "p_set"]
  /\ tgt' = [tgt EXCEPT !["pr"] = 0]
  /\ UNCHANGED notPlay
  /\ UNCHANGED <<nprocs, current_playing_process, new, goals,
                 results, preempt_requested, now, initial_time, final_time,
                 total_time, fb_elapsed, shutdown, play_timers, kill_raised,
                 had_running, cancel_in_time>>

\* self.afp_as.set_preempted(res, text="Cancel requested.")
PreemptSet ==
  /\ pc["pr"] = "p_set"
  /\ results' = Append(results, "preempted")
  /\ pc' = [pc EXCEPT !["pr"] = "idle"]
  /\ cancel_in_time' = ~GoalProcessExited
  /\ UNCHANGED notPlay
  /\ UNCHANGED <<procs, nprocs, current_playing_process, new, tgt, goals,
                 preempt_requested, now, initial_time, final_time,
                 total_time, fb_elapsed, shutdown, play_timers, kill_raised,
                 had_running>>

\* ------------------------------------------------------------ environment

\* A player process ends by itself, with exit code 0 or a nonzero one.
ProcExit(p, c) ==
  /\ procs[p].st = "running"
  /\ procs' = [procs EXCEPT ![p].st = "zombie", ![p].code = c]
  /\ UNCHANGED notPlay
  /\ UNCHANGED <<nprocs, current_playing_process, pc, new, tgt, goals,
                 results, preempt_requested, now, initial_time, final_time,
                 total_time, fb_elapsed, shutdown, play_timers, kill_raised,
                 had_running, cancel_in_time>>

\* A player process that was sent SIGTERM dies of it.
ProcDie(p) ==
  /\ procs[p].st = "termed"
  /\ procs' = [procs EXCEPT ![p].st = "zombie", ![p].code = "-15"]
  /\ UNCHANGED notPlay
  /\ UNCHANGED <<nprocs, current_playing_process, pc, new, tgt, goals,
                 results, preempt_requested, now, initial_time, final_time,
                 total_time, fb_elapsed, shutdown, play_timers, kill_raised,
                 had_running, cancel_in_time>>

\* Wall-clock time advances.
Tick ==
  /\ now < StartTime + MaxTicks
  /\ now' = now + 1
  /\ UNCHANGED notPlay
  /\ UNCHANGED <<procs, nprocs, current_playing_process, pc, new, tgt, goals,
                 results, preempt_requested, initial_time, final_time,
                 total_time, fb_elapsed, shutdown, play_timers, kill_raised,
                 had_running, cancel_in_time>>

\* The node is shut down: rospy.is_shutdown() becomes true.
Shutdown ==
  /\ ~shutdown
  /\ shutdown' = TRUE
  /\ UNCHANGED notPlay
  /\ UNCHANGED <<procs, nprocs, current_playing_process, pc, new, tgt, goals,
                 results, preempt_requested, now, initial_time,
                 final_time, total_time, fb_elapsed, play_timers, kill_raised,
                 had_running, cancel_in_time>>

\* ------------------------------------------------------- Python strings
\* A str is a sequence of one-character strings.

\* s.replace(c, ""): every occurrence of c removed.
Replace(s, c) == SelectSeq(s, LAMBDA x : x # c)

\* s.index(c), 0-based; -1 stands for the ValueError of a missing c.
Index(s, c) ==
  IF \E i \in 1..Len(s) : s[i] = c
  THEN (CHOOSE i \in 1..Len(s) : s[i] = c /\ \A j \in 1..(i - 1) : s[j] # c) - 1
  ELSE -1

\* One bound of a slice: a negative index counts from the end, then is clipped.
SliceBound(i, n) ==
  LET k == IF i < 0 THEN i + n ELSE i
  IN  IF k < 0 THEN 0 ELSE IF k > n THEN n ELSE k

\* s[start:stop] with Python's 0-based, end-exclusive indices.
Slice(s, start, stop) ==
  LET a == SliceBound(start, Len(s))
      b == SliceBound(stop, Len(s))
  IN  IF a >= b THEN <<>> ELSE SubSeq(s, a + 1, b)

Whitespace == {" ", "\t", "\n", "\r"}

RECURSIVE LStrip(_)
LStrip(s) == IF s # <<>> /\ Head(s) \in Whitespace THEN LStrip(Tail(s)) ELSE s

RECURSIVE RStrip(_)
RStrip(s) ==
  IF s # <<>> /\ s[Len(s)] \in Whitespace THEN RStrip(SubSeq(s, 1, Len(s) - 1)) ELSE s

\* s.strip()
Strip(s) == RStrip(LStrip(s))

DigitChars == <<"0", "1", "2", "3", "4", "5", "6", "7", "8", "9">>

IsDigit(c) == \E d \in 1..10 : DigitChars[d] = c

DigitVal(c) == (CHOOSE d \in 1..10 : DigitChars[d] = c) - 1

RECURSIVE DigitsVal(_)
DigitsVal(s) ==
  IF s = <<>> THEN 0 ELSE 10 * DigitsVal(SubSeq(s, 1, Len(s) - 1)) + DigitVal(s[Len(s)])

AllDigits(s) == s # <<>> /\ \A i \in 1..Len(s) : IsDigit(s[i])

\* int(s) accepts an optional sign followed by decimal digits.
IntAccepts(s) ==
  LET t == Strip(s)
  IN  \/ AllDigits(t)
      \/ t # <<>> /\ Head(t) \in {"+", "-"} /\ AllDigits(Tail(t))

IntOf(s) ==
  LET t == Strip(s)
  IN  IF Head(t) = "-" THEN 0 - DigitsVal(Tail(t))
      ELSE IF Head(t) = "+" THEN DigitsVal(Tail(t))
      ELSE DigitsVal(t)

RECURSIVE NatStr(_)
NatStr(n) ==
  IF n < 10 THEN <<DigitChars[n + 1]>>
  ELSE NatStr(n \div 10) \o <<DigitChars[(n % 10) + 1]>>

\* str(n) of an int.
Str(n) == IF n < 0 THEN <<"-">> \o NatStr(0 - n) ELSE NatStr(n)

\* All strings over an alphabet, up to a length.
RECURSIVE StringsUpTo(_, _)
StringsUpTo(alphabet, n) ==
  IF n = 0 THEN {<<>>}
  ELSE LET shorter == StringsUpTo(alphabet, n - 1)
       IN  shorter \cup {Append(s, c) : s \in shorter, c \in alphabet}

\* ------------------------------------------------- get_current_volume

\* Lines 193-200 on the output text of the get command: the (up to) three
\* characters before the first '%', without '[' and surrounding blanks, as
\* an int.  ok is FALSE when index or int raises ValueError.
get_current_volume(output) ==
  LET pct_idx == Index(output, "%")
      pct_text == Strip(Replace(Slice(output, pct_idx - 3, pct_idx), "["))
  IN  IF pct_idx >= 0 /\ IntAccepts(pct_text)
      THEN [ok |-> TRUE, val |-> IntOf(pct_text)]
      ELSE [ok |-> FALSE, val |-> 0]

TextAlphabet == {"1", "5", "-", "[", "%", " "}

\* The mixer output texts the get command may print.
Texts == StringsUpTo(TextAlphabet, MaxTextLen)

\* What get_current_volume makes of them.
MixerReadings == {get_current_volume(t) : t \in Texts}

\* amixer's usual line, "... [51%] ...", cut to the alphabet.
SampleOutput == <<"[", "5", "1", "%">>

InitVol(v) ==
  /\ curr_vol = v
  /\ published = <<>>
  /\ pubs = 0
  /\ vol_raised = FALSE
  /\ pt_dead = 0
  /\ gpc = "idle"
  /\ gcmd = "None"
  /\ gtm = 0

\* The rospy.Timer threads that call curr_vol_cb: the one enable_volume_service
\* made (line 222) and those play_audio_file made (line 174).
TimerKinds == {"listener", "play"}

\* A timer of that kind is running.
TimerAlive(tm) ==
  IF tm = "listener" THEN vt_alive ELSE play_timers > pt_dead

\* The number of running timers that call curr_vol_cb.
LiveTimers == (IF vt_alive THEN 1 ELSE 0) + (play_timers - pt_dead)

\* A timer fires and calls curr_vol_cb, which calls get_current_volume:
\* cmd = ShellCmd(self.volume_get_command), line 181.
TimerTick(tm) ==
  /\ gpc = "idle"
  /\ ~shutdown
  /\ TimerAlive(tm)
  /\ gpc' = "wait"
  /\ gcmd' = "running"
  /\ gtm' = IF tm = "listener" THEN timers_created ELSE -1
  /\ UNCHANGED <<curr_vol, published, pubs, vol_raised, pt_dead>>
  /\ UNCHANGED <<playVars, gateVars, setVars, cmdVars>>

\* The volume_get_command process ends.
GetCmdExit ==
  /\ gcmd = "running"
  /\ gcmd' = "done"
  /\ UNCHANGED <<curr_vol, published, pubs, vol_raised, pt_dead, gpc, gtm>>
  /\ UNCHANGED <<playVars, gateVars, setVars, cmdVars>>

\* The timer that called the running curr_vol_cb is the one volume_timer holds.
TickOfVolumeTimer == gtm = timers_created /\ volume_timer # "None"

\* The rest of curr_vol_cb.  The wait of lines 182-183 ends when the command is
\* done or the node is shut down; r is what lines 184-201 make of the output.
\* Then self.curr_vol = r and volume_pub.publish(Int8(self.curr_vol)).  Nothing
\* catches the ValueError of line 193 or 200: it leaves curr_vol_cb with both
\* undone and ends the thread of the timer that called.
curr_vol_cb(r) ==
  /\ gpc = "wait"
  /\ gcmd = "done" \/ shutdown
  /\ gpc' = "idle"
  /\ gcmd' = "None"
  /\ gtm' = 0
  /\ vol_raised' = ~r.ok
  /\ IF r.ok
     THEN /\ pubs < MaxPubs
          /\ curr_vol' = r.val
          /\ published' = <<r.val>>
          /\ pubs' = pubs + 1
          /\ UNCHANGED <<pt_dead, vt_alive>>
     ELSE /\ UNCHANGED <<curr_vol, published, pubs>>
          /\ pt_dead' = IF gtm = -1 THEN pt_dead + 1 ELSE pt_dead
          /\ vt_alive' = IF TickOfVolumeTimer THEN FALSE ELSE vt_alive
  /\ UNCHANGED <<num_peers, conns, volume_timer, lpc, timers_created,
                 timers_shutdown, enable_calls, disable_calls>>
  /\ UNCHANGED <<playVars, setVars, cmdVars>>

\* --------------------------------------------------------- VolumeListener

\* enable_volume_service without its "if not self.volume_timer" guard.
enable_volume_service_unguarded ==
  /\ enable_calls' = enable_calls + 1
  /\ volume_timer' = "Timer"
  /\ timers_created' = timers_created + 1
  /\ vt_alive' = TRUE

\* AudioFilePlayer.enable_volume_service: a timer only if there is none.
enable_volume_service ==
  /\ enable_calls' = enable_calls + 1
  /\ IF volume_timer = "None"
     THEN /\ volume_timer' = "Timer"
          /\ timers_created' = timers_created + 1
          /\ vt_alive' = TRUE
     ELSE UNCHANGED <<volume_timer, timers_created, vt_alive>>

\* AudioFilePlayer.disable_volume_servce: shutdown only if there is a timer.
disable_volume_servce ==
  /\ disable_calls' = disable_calls + 1
  /\ IF volume_timer # "None"
     THEN /\ volume_timer' = "None"
          /\ timers_shutdown' = timers_shutdown + 1
          /\ vt_alive' = FALSE
     ELSE UNCHANGED <<volume_timer, timers_shutdown, vt_alive>>

\* peer_subscribe, line 66: is this the first peer?
FirstPeer(n) == n = 0

\* The test of line 72 off by one.
LastPeerLeft_offbyone(n) == n = 1

\* peer_unsubscribe, line 72: has the last peer left?
LastPeerLeft(n) == n = 0

\* peer_subscribe, lines 66-67: if self.num_peers == 0: enable_volume_service().
peer_subscribe_if ==
  /\ lpc = "idle"
  /\ lpc' = "sub_inc"
  /\ IF FirstPeer(num_peers)
     THEN /\ enable_calls < MaxCalls
          /\ enable_volume_service
     ELSE UNCHANGED <<volume_timer, timers_created, enable_calls, vt_alive>>
  /\ UNCHANGED <<num_peers, timers_shutdown, disable_calls>>

\* peer_subscribe, line 68: self.num_peers += 1.
peer_subscribe_inc ==
  /\ lpc = "sub_inc"
  /\ lpc' = "idle"
  /\ num_peers' = num_peers + 1
  /\ UNCHANGED <<conns, volume_timer, timers_created, timers_shutdown,
                 enable_calls, disable_calls, vt_alive>>
  /\ UNCHANGED <<playVars, volVars, setVars, cmdVars>>

\* peer_unsubscribe, line 71: self.num_peers = num_peers.
peer_unsubscribe_set(n) ==
  /\ lpc = "idle"
  /\ lpc' = "unsub_if"
  /\ num_peers' = n
  /\ UNCHANGED <<volume_timer, timers_created, timers_shutdown, enable_calls,
                 disable_calls, vt_alive>>

\* peer_unsubscribe, lines 72-73: if num_peers == 0: disable_volume_servce().
peer_unsubscribe_if ==
  /\ lpc = "unsub_if"
  /\ lpc' = "idle"
  /\ IF LastPeerLeft(num_peers)
     THEN /\ disable_calls < MaxCalls
          /\ disable_volume_servce
     ELSE UNCHANGED <<volume_timer, timers_shutdown, disable_calls, vt_alive>>
  /\ UNCHANGED <<num_peers, conns, timers_created, enable_calls>>
  /\ UNCHANGED <<playVars, volVars, setVars, cmdVars>>

\* A subscriber connects to ~get_volume: rospy calls peer_subscribe.
Join ==
  /\ conns < MaxPeers
  /\ conns' = conns + 1
  /\ peer_subscribe_if
  /\ UNCHANGED <<playVars, volVars, setVars, cmdVars>>

\* A subscriber disconnects: rospy calls peer_unsubscribe with the number of
\* connections that remain.
Leave ==
  /\ conns > 0
  /\ conns' = conns - 1
  /\ peer_unsubscribe_set(conns - 1)
  /\ UNCHANGED <<playVars, volVars, setVars, cmdVars>>

\* The methods called directly, in any order and with any count.
CallPeerSubscribe ==
  /\ num_peers < MaxPeers
  /\ peer_subscribe_if
  /\ UNCHANGED conns
  /\ UNCHANGED <<playVars, volVars, setVars, cmdVars>>

CallPeerUnsubscribe(n) ==
  /\ peer_unsubscribe_set(n)
  /\ UNCHANGED conns
  /\ UNCHANGED <<playVars, volVars, setVars, cmdVars>>

CallEnable ==
  /\ lpc = "idle"
  /\ enable_calls < MaxCalls
  /\ enable_volume_service
  /\ UNCHANGED <<num_peers, conns, lpc, timers_shutdown, disable_calls>>
  /\ UNCHANGED <<playVars, volVars, setVars, cmdVars>>

CallDisable ==
  /\ lpc = "idle"
  /\ disable_calls < MaxCalls
  /\ disable_volume_servce
  /\ UNCHANGED <<num_peers, conns, lpc, timers_created, enable_calls>>
  /\ UNCHANGED <<playVars, volVars, setVars, cmdVars>>

InitGate ==
  /\ num_peers = 0
  /\ conns = 0
  /\ volume_timer = "None"
  /\ lpc = "idle"
  /\ timers_created = 0
  /\ timers_shutdown = 0
  /\ enable_calls = 0
  /\ disable_calls = 0
  /\ vt_alive = FALSE

\* -------------------------------------------------------------- volume_cb

Int8 == -128..127

\* Lines 204-209 without the lower clamp.
ToPct_nolower(data) == IF data > 100 THEN 100 ELSE data

\* volume_cb, lines 204-209.
ToPct(data) == IF data > 100 THEN 100 ELSE IF data < 0 THEN 0 ELSE data

\* volume_cb, lines 204-213: the clamped value, what line 211 appends to the
\* set command, " " + str(to_pct) + "%" (kept without the blank), and
\* cmd = ShellCmd(cmd_line).
volume_cb(data) ==
  /\ vpc = "idle"
  /\ ~shutdown
  /\ vol_req' = <<data>>
  /\ to_pct' = ToPct(data)
  /\ cmd_line' = Str(ToPct(data)) \o <<"%">>
  /\ vpc' = "wait"
  /\ scmd' = "running"
  /\ UNCHANGED <<playVars, gateVars, volVars, cmdVars>>

\* The volume_set_command process ends.
SetCmdExit ==
  /\ scmd = "running"
  /\ scmd' = "done"
  /\ UNCHANGED <<vol_req, to_pct, cmd_line, vpc>>
  /\ UNCHANGED <<playVars, gateVars, volVars, cmdVars>>

\* volume_cb, lines 214-217: the wait ends when the command is done or the node
\* is shut down; the output is read and logged, and volume_cb returns.
volume_cb_return ==
  /\ vpc = "wait"
  /\ scmd = "done" \/ shutdown
  /\ vpc' = "idle"
  /\ scmd' = "None"
  /\ UNCHANGED <<vol_req, to_pct, cmd_line>>
  /\ UNCHANGED <<playVars, gateVars, volVars, cmdVars>>

InitSet ==
  /\ vol_req = <<>>
  /\ to_pct = 0
  /\ cmd_line = <<>>
  /\ vpc = "idle"
  /\ scmd = "None"

\* ------------------------------------------ play_audio_file: the command

\* rospy.get_param('~/command', 'play') and ('~/flags', ''): the defaults.
Command == <<"p", "l", "a", "y">>
Flags == <<>>

\* Line 163 alone: the double quote is left in.
Sanitize_single(path) == Replace(path, "'")

\* Lines 163-164: both quote characters removed from the path.
Sanitize(path) == Replace(Replace(path, "'"), "\"")

\* Line 165.
FullCommand(path) ==
  Command \o <<" ">> \o Flags \o <<" ", "'">> \o Sanitize(path) \o <<"'">>

PathAlphabet == {"'", "\"", "a", "/", " "}

Paths == StringsUpTo(PathAlphabet, MaxPathLen)

\* play_audio_file(path), as far as the command line goes.
play_audio_file(path) ==
  /\ audio_file_path' = path
  /\ full_command' = FullCommand(path)
  /\ UNCHANGED <<playVars, gateVars, volVars, setVars>>

InitCmd ==
  /\ audio_file_path = <<>>
  /\ full_command = <<>>

\* --------------------------------------------------------- specifications

DefaultVol == get_current_volume(SampleOutput).val

\* Playback: as_cb, topic_cb and as_preempt_cb in their threads, the player
\* processes, shutdown.
Init == InitPlay /\ InitGate /\ InitVol(DefaultVol) /\ InitSet /\ InitCmd

Next ==
  \/ \E t \in Starters : PlaySpawn(t)
  \/ \E t \in Starters : PlayAssign(t)
  \/ \E t \in Starters : DelKill(t)
  \/ \E t \in Starters : DelWait(t)
  \/ AsAccept
  \/ AsLoop
  \/ AsFeedback
  \/ AsFinal
  \/ TopicArrive
  \/ TopicIsDone
  \/ TopicKill
  \/ TopicWait
  \/ PreemptArrive
  \/ PreemptKill
  \/ PreemptWait
  \/ PreemptSet
  \/ \E p \in Pids, c \in {"0", "1"} : ProcExit(p, c)
  \/ \E p \in Pids : ProcDie(p)
  \/ Shutdown

Spec == Init /\ [][Next]_vars

\* Timing of one control flow: as_cb with cancels, under a ticking clock.
NextTime ==
  \/ PlaySpawn("as")
  \/ PlayAssign("as")
  \/ AsAccept
  \/ AsLoop
  \/ AsFeedback
  \/ AsFinal
  \/ PreemptArrive
  \/ PreemptKill
  \/ PreemptWait
  \/ PreemptSet
  \/ \E p \in Pids, c \in {"0", "1"} : ProcExit(p, c)
  \/ \E p \in Pids : ProcDie(p)
  \/ Tick

SpecTime == Init /\ [][NextTime]_vars

\* Volume telemetry: listeners come and go, the timer ticks.
InitVolume ==
  /\ InitPlay /\ InitGate /\ InitSet /\ InitCmd
  /\ \E r \in MixerReadings : r.ok /\ InitVol(r.val)

NextVolume ==
  \/ Join
  \/ peer_subscribe_inc
  \/ Leave
  \/ peer_unsubscribe_if
  \/ \E tm \in TimerKinds : TimerTick(tm)
  \/ GetCmdExit
  \/ \E r \in MixerReadings : curr_vol_cb(r)
  \/ Shutdown

SpecVolume == InitVolume /\ [][NextVolume]_vars

\* The listener and the service as objects: their methods in any order.
NextGate ==
  \/ CallPeerSubscribe
  \/ peer_subscribe_inc
  \/ \E n \in 0..MaxPeers : CallPeerUnsubscribe(n)
  \/ peer_unsubscribe_if
  \/ CallEnable
  \/ CallDisable

SpecGate == Init /\ [][NextGate]_vars

\* ~set_volume messages.
NextSetVolume ==
  \/ \E data \in Int8 : volume_cb(data)
  \/ SetCmdExit
  \/ volume_cb_return
  \/ Shutdown

SpecSetVolume == Init /\ [][NextSetVolume]_vars

\* The command line play_audio_file builds.
NextCommand == \E path \in Paths : play_audio_file(path)

SpecCommand == Init /\ [][NextCommand]_vars

\* amixer's usual output, and an output without '%'.
TickReadings == {get_current_volume(SampleOutput), get_current_volume(<<>>)}

\* The two sources of volume timers together: playbacks started from ~play
\* (topic_cb has killed the old process before it starts the new one, so the
\* replaced handle is always done), listeners of ~get_volume coming and going,
\* the timers ticking.
NextTimers ==
  \/ TopicArrive
  \/ TopicIsDone
  \/ TopicKill
  \/ TopicWait
  \/ PlaySpawn("tp")
  \/ PlayAssign("tp")
  \/ \E p \in Pids, c \in {"0", "1"} : ProcExit(p, c)
  \/ \E p \in Pids : ProcDie(p)
  \/ Join
  \/ peer_subscribe_inc
  \/ Leave
  \/ peer_unsubscribe_if
  \/ \E tm \in TimerKinds : TimerTick(tm)
  \/ GetCmdExit
  \/ \E r \in TickReadings : curr_vol_cb(r)

SpecTimers == Init /\ [][NextTimers]_vars

\* ----------------------------------------------------------------- claims

InResults(x) == \E i \in 1..Len(results) : results[i] = x

\* C1: at most one playback child process is alive in every reachable state.
C1_AtMostOnePlaybackAlive == Cardinality(Running) <= 1

\* C2: a goal whose cancel callback ran and returned before the player process
\* had exited by itself ends neither succeeded nor aborted.
C2_CancelYieldsCancelled ==
  cancel_in_time => ~InResults("succeeded") /\ ~InResults("aborted")

\* C3: as_cb sets aborted only when the process spawned for the goal has ended
\* by itself with a non-success exit code, not when it was killed (stated for
\* a node that is not shutting down).
C3_AbortedOnlyOnOwnFailure ==
  (InResults("aborted") /\ ~shutdown) =>
    /\ procs[new["as"]].st \in {"zombie", "reaped"}
    /\ procs[new["as"]].code = "1"

\* play_audio_file returns in control flow t with this step.
StartReturns(t) ==
  /\ pc[t] \in {"assign", "del_kill", "del_wait"}
  /\ pc'[t] \in {"loop", "idle"}

\* C4: when a start that found a playback process running returns, no playback
\* process other than the new one is alive, and no kill issued by a start
\* operation hit a process that was already gone.
C4_StartLeavesOnlyNewAlive ==
  /\ [][\A t \in Starters :
          (StartReturns(t) /\ had_running[t]) => Running' \subseteq {new[t]}]_vars
  /\ [](kill_raised \cap Starters = {})

\* C5: with no join/leave handler mid-execution, the listener's timer exists
\* exactly when num_peers > 0.
C5_PollingIffListeners ==
  lpc = "idle" => (volume_timer # "None" <=> num_peers > 0)

\* C5 witness: listeners came, all left, one came again; the timer is back.
C5_Witness ==
  /\ lpc = "idle"
  /\ num_peers = 1
  /\ volume_timer = "Timer"
  /\ timers_shutdown = 1
  /\ timers_created = 2

\* C6: the timers created and not yet shut down are the one volume_timer holds,
\* or none: no call of enable_volume_service creates a second one, and no call
\* of disable_volume_servce shuts one down twice.
C6_TimerCreatedOnce ==
  timers_created - timers_shutdown = IF volume_timer = "None" THEN 0 ELSE 1

\* C6 witness: enable and disable were each called more than once, and one
\* timer was created and shut down.
C6_Witness ==
  /\ enable_calls >= 2
  /\ disable_calls >= 2
  /\ timers_created = 1
  /\ timers_shutdown = 1

Min(a, b) == IF a < b THEN a ELSE b
Max(a, b) == IF a > b THEN a ELSE b

\* C7: the value volume_cb puts into the set command is min(100, max(0, r)).
C7_VolumeClamped ==
  vol_req # <<>> =>
    /\ to_pct = Min(100, Max(0, vol_req[1]))
    /\ cmd_line = Str(Min(100, Max(0, vol_req[1]))) \o <<"%">>

\* C7 witness: a request below 0 was applied as 0.
C7_Witness == vol_req = <<-5>> /\ cmd_line = <<"0", "%">>

\* C8: curr_vol and every published value lie in [0,100].
C8_VolumeInRange ==
  /\ curr_vol \in 0..100
  /\ \A i \in 1..Len(published) : published[i] \in 0..100

Quotes == {"'", "\""}

\* What follows "<command> <flags> '" in the command, without the last quote.
PathPortion ==
  SubSeq(full_command, Len(Command) + Len(Flags) + 4, Len(full_command) - 1)

\* C9: the path text in the command holds no quote character; the only quotes
\* of the command are the two that wrap it.
C9_NoQuoteInPath ==
  full_command # <<>> =>
    /\ \A i \in 1..Len(PathPortion) : PathPortion[i] \notin Quotes
    /\ {i \in 1..Len(full_command) : full_command[i] \in Quotes}
         = {Len(Command) + Len(Flags) + 3, Len(full_command)}

\* C9 witness: a path with both quote characters was played.
C9_Witness ==
  /\ full_command # <<>>
  /\ \E i, j \in 1..Len(audio_file_path) :
       audio_file_path[i] = "'" /\ audio_file_path[j] = "\""

\* C10: the Success result's total_time is final_time - initial_time.
C10_TotalTimeIsElapsed ==
  InResults("succeeded") => total_time = final_time - initial_time

\* as_cb publishes a feedback event with this step.
FeedbackPublished == pc["as"] = "body" /\ pc'["as"] # "body"

\* C11: every feedback event of a goal is published before a terminal result of
\* that goal is set, and the elapsed times of its feedback never decrease.
C11_FeedbackBeforeResult ==
  [][FeedbackPublished => (results = <<>> /\ fb_elapsed' >= fb_elapsed)]_vars

\* Control flow t calls os.killpg with this step, and the handle it is called on.
KillStep(t) == pc[t] \in {"t_kill", "p_kill", "del_kill"} /\ pc'[t] # pc[t]
KillTarget(t) == IF pc[t] = "del_kill" THEN tgt[t] ELSE current_playing_process

\* C14: a retcode that is no longer None never changes, and no kill() sends a
\* signal for a handle whose retcode is no longer None.
C14_TerminalStateKept ==
  /\ [][\A p \in Pids :
          procs[p].retcode # "None" => procs'[p].retcode = procs[p].retcode]_vars
  /\ [][\A t \in Threads :
          KillStep(t) => procs[KillTarget(t)].retcode = "None"]_vars

\* Control flow t is inside the code that kills or replaces
\* current_playing_process: play_audio_file in as_cb, all of topic_cb, the
\* kill of as_preempt_cb.
InSection(t) ==
  \/ t = "as" /\ pc[t] \in {"spawn", "assign", "del_kill", "del_wait"}
  \/ t = "tp" /\ pc[t] # "idle"
  \/ t = "pr" /\ pc[t] \in {"p_kill", "p_wait"}

\* C16: at most one control flow is inside that code at a time.
C16_OneMutatorAtATime == Cardinality({t \in Threads : InSection(t)}) <= 1

\* as_preempt_cb has run for the goal to its end, and the process spawned for
\* the goal was killed.
CancelDone ==
  InResults("preempted") /\ new["as"] # 0 /\ procs[new["as"]].retcode = "-1"

\* C17: once as_preempt_cb has killed the goal's process and set the goal
\* preempted, a check of as_cb's loop condition does not enter the loop body
\* again.
C17_LoopExitsAfterCancel ==
  [][(CancelDone /\ pc["as"] = "loop") => pc'["as"] # "body"]_vars

\* as_cb has returned for the last goal and no cancel callback is running.
AsReturned == goals > 0 /\ pc["as"] = "idle" /\ pc["pr"] = "idle"

\* C19: a goal never has two terminal results, and once as_cb has returned
\* for a goal whose process has exited (the node not shutting down) it has
\* exactly one.
C19_ExactlyOneResult ==
  /\ Len(results) <= 1
  /\ (AsReturned /\ ~shutdown /\ Exited(procs, new["as"])) => Len(results) = 1

\* C20: whenever as_cb checks its loop condition or reports the outcome, the
\* process it looks at is the one spawned for its goal.
C20_ResultOfOwnProcess ==
  [][(pc["as"] \in {"loop", "final"} /\ pc'["as"] # pc["as"])
       => current_playing_process = new["as"]]_vars

\* The running curr_vol_cb ends with this step.
TickEnds == gpc = "wait" /\ gpc' = "idle"

\* C12: no tick ends by an error leaving curr_vol_cb, and the timer that made
\* the tick is still running after it.
C12_ParseErrorAbsorbed ==
  [][TickEnds => (~vol_raised' /\ LiveTimers' = LiveTimers)]_vars

\* volume_cb returns with this step, its set command completed.
VolumeCbReturns == vpc = "wait" /\ scmd = "done" /\ vpc' = "idle"

\* C13: by the time volume_cb returns after its set command has completed,
\* exactly one message has been published on ~get_volume for the request.
C13_SetVolumePublishesOnce == [][VolumeCbReturns => pubs' = pubs + 1]_vars

\* C15: at most one timer that calls curr_vol_cb is running.
C15_AtMostOneTimer == LiveTimers <= 1

\* C18: once the node is shut down, every control flow that is inside a wait
\* can take its next step: the feedback loop of as_cb, the completion waits of
\* get_current_volume and volume_cb, and process.wait() of ShellCmd.kill do
\* not depend on the child process having exited.
C18_WaitsEndOnShutdown ==
  shutdown =>
    /\ pc["as"] = "loop" => ENABLED AsLoop
    /\ pc["as"] = "body" => ENABLED AsFeedback
    /\ gpc = "wait" => ENABLED (\E r \in MixerReadings : curr_vol_cb(r))
    /\ vpc = "wait" => ENABLED volume_cb_return
    /\ pc["tp"] = "t_wait" => ENABLED TopicWait
    /\ pc["pr"] = "p_wait" => ENABLED PreemptWait
    /\ \A t \in Starters : pc[t] = "del_wait" => ENABLED DelWait(t)

====
